---- MODULE Spec2Model ----
(***************************************************************************)
(* Model of magespace_importer/__main__.py: MagespaceModelImporter.        *)
(* One run of the importer: __init__ -> initialize_driver -> run           *)
(* (driver.get, is_logged_in, read_model_urls, process_urls,               *)
(* wait_for_manual_processing, driver.quit), interleaved with the human    *)
(* operator who closes and opens browser tabs.                             *)
(***************************************************************************)
EXTENDS Integers, Sequences, FiniteSets, TLC

\* ---------------------------------------------------------------- bounds
MaxLines == 2          \* lines in the input file
MaxOperatorTabs == 1   \* tabs the operator opens by hand

\* ------------------------------------------------------- file and its text
NL == "\n"

\* One line of the input file (a sequence of characters without a newline):
\* a blank line, a URL, and a URL written after a space.
LineSet == { <<>>, <<"a">>, <<" ", "a">> }

RECURSIVE SeqsUpTo(_, _)
SeqsUpTo(S, n) ==
  IF n = 0 THEN { <<>> }
  ELSE LET shorter == SeqsUpTo(S, n - 1)
       IN  shorter \cup { Append(s, x) : s \in { t \in shorter : Len(t) = n - 1 }, x \in S }

\* The text of a file holding `lines`: every line is ended by a newline,
\* except that the last one need not be (finalNewline = FALSE).
RECURSIVE WriteLines(_, _)
WriteLines(lines, finalNewline) ==
  IF lines = <<>> THEN <<>>
  ELSE IF Len(lines) = 1
       THEN IF finalNewline THEN Head(lines) \o <<NL>> ELSE Head(lines)
       ELSE Head(lines) \o <<NL>> \o WriteLines(Tail(lines), finalNewline)

\* str.splitlines(): cut the text at each newline; keep the pieces as they
\* are; a text that ends with a newline has no empty last piece.
RECURSIVE SplitFrom(_, _, _, _)
SplitFrom(text, i, cur, acc) ==
  IF i > Len(text)
  THEN IF cur = <<>> THEN acc ELSE Append(acc, cur)
  ELSE IF text[i] = NL
       THEN SplitFrom(text, i + 1, <<>>, Append(acc, cur))
       ELSE SplitFrom(text, i + 1, Append(cur, text[i]), acc)

\* splitlines() followed by dropping the blank lines: a reader that filters
SplitLinesNoBlank(text) ==
  SelectSeq(SplitFrom(text, 1, <<>>, <<>>), LAMBDA l : l # <<>>)

SplitLines(text) == SplitFrom(text, 1, <<>>, <<>>)

\* ---------------------------------------------------------------- browser
\* The text a freshly loaded import page shows in its field (the text that
\* clear() is there to remove).
PageDefault == << "x" >>

\* Where process_model_url can raise; "ok" is no exception.
FailSteps == { "open_new_tab", "wait_for_element", "clear", "send_keys" }
Outcomes == FailSteps \cup { "ok" }

VARIABLES
  pc,                 \* position of the program
  fileExists,         \* models_path.exists()
  fileLines,          \* the lines the input file holds
  fileText,           \* the characters of the input file
  launches,           \* calls of initialize_driver
  handles,            \* driver.window_handles: the open tabs, oldest first
  current,            \* the tab the driver is switched to (0: none)
  nextId,             \* next fresh window handle
  navigations,        \* driver.get calls made by run()
  prompted,           \* is_logged_in asked the operator to press Enter
  auth,               \* what is_logged_in returned: "none", "true", "false"
  fileRead,           \* read_model_urls was called
  model_urls,         \* the list read_model_urls returned
  idx,                \* position of process_urls' loop (1-based)
  calls,              \* the URLs passed to process_model_url, in call order
  raised,             \* whether each call of process_model_url raised
  opened,             \* handle of the tab each call opened (0: none)
  error_urls,         \* process_urls' failed list
  initial_tab_count,
  previous_tab_count,
  pbar_n,             \* the progress bar's counter
  quits,              \* calls of driver.quit
  errorLogged,        \* logger.error about the missing file
  opOpened,           \* tabs the operator opened
  interfered          \* the operator closed or opened a tab

vars == << pc, fileExists, fileLines, fileText, launches, handles, current,
           nextId, navigations, prompted, auth, fileRead, model_urls, idx,
           calls, raised, opened, error_urls, initial_tab_count,
           previous_tab_count, pbar_n, quits,
           errorLogged, opOpened, interfered >>

fileVars == << fileExists, fileLines, fileText >>
loopVars == << idx, calls, raised, opened, error_urls >>
waitVars == << initial_tab_count, previous_tab_count, pbar_n >>
opVars   == << opOpened, interfered >>

Tab(id, page, field, typed) ==
  [ id |-> id, page |-> page, field |-> field, typed |-> typed ]

HandleIds == { handles[i].id : i \in 1..Len(handles) }
CurrentOpen == current \in HandleIds

RemoveAt(s, i) == SubSeq(s, 1, i - 1) \o SubSeq(s, i + 1, Len(s))

\* ------------------------------------------------------------------- Init
Init ==
  /\ pc = "init"
  /\ fileExists \in BOOLEAN
  /\ fileLines \in SeqsUpTo(LineSet, MaxLines)
  /\ \E finalNewline \in BOOLEAN :
       \* a file cannot hold an empty last line that no newline ends
       /\ (finalNewline = FALSE) => (fileLines # <<>> /\ fileLines[Len(fileLines)] # <<>>)
       /\ fileText = WriteLines(fileLines, finalNewline)
  /\ launches = 0
  /\ handles = <<>>
  /\ current = 0
  /\ nextId = 1
  /\ navigations = 0
  /\ prompted = FALSE
  /\ auth = "none"
  /\ fileRead = FALSE
  /\ model_urls = <<>>
  /\ idx = 1
  /\ calls = <<>>
  /\ raised = <<>>
  /\ opened = <<>>
  /\ error_urls = <<>>
  /\ initial_tab_count = 0
  /\ previous_tab_count = 0
  /\ pbar_n = 0
  /\ quits = 0
  /\ errorLogged = FALSE
  /\ opOpened = 0
  /\ interfered = FALSE

\* program positions at which a browser is running
BrowserPcs == { "run", "prompt", "enter", "read", "process", "wait_init",
                "poll", "body", "quit" }

\* program positions inside wait_for_manual_processing
WaitPcs == { "wait_init", "poll", "body" }

\* ----------------------------------------------------------- __init__
\* the missing-file branch without its `return`: goes on to the launch
InitMissingFileNoReturn ==
  /\ pc = "init"
  /\ ~fileExists
  /\ errorLogged' = TRUE
  /\ launches' = launches + 1
  /\ handles' = << Tab(nextId, "blank", <<>>, <<>>) >>
  /\ current' = nextId
  /\ nextId' = nextId + 1
  /\ pc' = "run"
  /\ UNCHANGED << fileVars, navigations, prompted, auth, fileRead, model_urls,
                  loopVars, waitVars, quits, opVars >>

\* models_path does not exist: log the error and return (lines 44-48).
InitMissingFile ==
  /\ pc = "init"
  /\ ~fileExists
  /\ errorLogged' = TRUE
  /\ pc' = "exited"
  /\ UNCHANGED << fileVars, launches, handles, current, nextId, navigations,
                  prompted, auth, fileRead, model_urls, loopVars, waitVars,
                  quits, opVars >>

\* initialize_driver: Chrome() starts a browser with one blank window.
InitializeDriver ==
  /\ pc = "init"
  /\ fileExists
  /\ launches' = launches + 1
  /\ handles' = << Tab(nextId, "blank", <<>>, <<>>) >>
  /\ current' = nextId
  /\ nextId' = nextId + 1
  /\ pc' = "run"
  /\ UNCHANGED << fileVars, navigations, prompted, auth, fileRead, model_urls,
                  loopVars, waitVars, quits, errorLogged, opVars >>

\* initialize_driver: Chrome() raises; the exception leaves __init__.
InitializeDriverRaises ==
  /\ pc = "init"
  /\ fileExists
  /\ launches' = launches + 1
  /\ pc' = "crashed"
  /\ UNCHANGED << fileVars, handles, current, nextId, navigations, prompted,
                  auth, fileRead, model_urls, loopVars, waitVars, quits,
                  errorLogged, opVars >>

\* ---------------------------------------------------------------- run
SetTab(hs, id, page, field, typed) ==
  [ i \in 1..Len(hs) |->
      IF hs[i].id = id THEN Tab(id, page, field, typed) ELSE hs[i] ]

\* run, line 186: driver.get(url_import) in the driver's current window.
RunNavigate ==
  /\ pc = "run"
  /\ navigations' = navigations + 1
  /\ \/ /\ CurrentOpen
        /\ handles' = SetTab(handles, current, "import", PageDefault, <<>>)
        /\ pc' = "prompt"
     \/ \* the window is gone, or the page cannot be loaded: get raises
        /\ handles' = handles
        /\ pc' = "crashed"
  /\ UNCHANGED << fileVars, launches, current, nextId, prompted, auth,
                  fileRead, model_urls, loopVars, waitVars, quits,
                  errorLogged, opVars >>

\* is_logged_in, lines 76-79: ask the operator to log in, block on input().
IsLoggedInPrompt ==
  /\ pc = "prompt"
  /\ prompted' = TRUE
  /\ pc' = "enter"
  /\ UNCHANGED << fileVars, launches, handles, current, nextId, navigations,
                  auth, fileRead, model_urls, loopVars, waitVars, quits,
                  errorLogged, opVars >>

\* run without the branch: reads the URLs whatever is_logged_in returned
AfterLoginIgnored(loggedIn) == "read"

\* run's branch on the value is_logged_in returned (line 187).
AfterLogin(loggedIn) == IF loggedIn THEN "read" ELSE "quit"

\* is_logged_in, lines 81-90: Enter was pressed; look for the auth iframe.
IsLoggedInCheck ==
  /\ pc = "enter"
  /\ \/ /\ CurrentOpen
        /\ \E marker \in BOOLEAN :
             /\ auth' = IF marker THEN "true" ELSE "false"
             /\ pc' = AfterLogin(marker)
     \/ \* NoSuchWindowException is not NoSuchElementException: not caught
        /\ ~CurrentOpen
        /\ auth' = auth
        /\ pc' = "crashed"
  /\ UNCHANGED << fileVars, launches, handles, current, nextId, navigations,
                  prompted, fileRead, model_urls, loopVars, waitVars, quits,
                  errorLogged, opVars >>

\* read_model_urls (line 139), called from run (line 188).
ReadModelUrls ==
  /\ pc = "read"
  /\ fileRead' = TRUE
  /\ model_urls' = SplitLines(fileText)
  /\ pc' = "process"
  /\ UNCHANGED << fileVars, launches, handles, current, nextId, navigations,
                  prompted, auth, loopVars, waitVars, quits, errorLogged,
                  opVars >>

\* --------------------------------------------------- process_model_url
\* a clear() that leaves the field's text in place
ClearKeepsText(field) == field

\* WebElement.clear() (line 127) and WebElement.send_keys() (line 128).
Clear(field) == <<>>
SendKeys(field, keys) == field \o keys

\* open_new_tab, line 100: the handle the driver switches to.
NewestHandle(hs) == hs[Len(hs)].id

\* The tab process_model_url leaves behind when it gets as far as `o`:
\* the page the new tab shows, its field, and what was typed into it.
FieldAfter(o, url) ==
  IF o \in { "wait_for_element", "clear" } THEN PageDefault
  ELSE IF o = "send_keys" THEN Clear(PageDefault)
  ELSE SendKeys(Clear(PageDefault), url)
TypedAfter(o, url) == IF o = "ok" THEN << url >> ELSE <<>>

\* a loop that records every URL, raised or not
RecordOutcomeAlways(errs, url, o) == Append(errs, url)

\* process_urls, lines 160-162: what the failed list becomes after a call.
RecordOutcome(errs, url, o) == IF o = "ok" THEN errs ELSE Append(errs, url)

\* a loop that skips every other entry
NextIndexSkips(i) == i + 2

\* process_urls, line 152: the loop moves to the next entry.
NextIndex(i) == i + 1

\* One iteration of process_urls' loop (lines 152-162): process_model_url
\* on the idx-th URL, ending normally or raising at one of its steps.
ProcessModelUrl ==
  /\ pc = "process"
  /\ idx <= Len(model_urls)
  /\ LET url == model_urls[idx] IN
     \E o \in Outcomes :
       \* a script cannot run in a window that is closed
       /\ (~CurrentOpen) => (o = "open_new_tab")
       /\ IF o = "open_new_tab"
          THEN /\ UNCHANGED << handles, current, nextId >>
               /\ opened' = Append(opened, 0)
          ELSE LET hs == Append(handles, Tab(nextId, "blank", <<>>, <<>>))
                   target == NewestHandle(hs)
               IN  /\ handles' = SetTab(hs, target, "import",
                                        FieldAfter(o, url), TypedAfter(o, url))
                   /\ current' = target
                   /\ nextId' = nextId + 1
                   /\ opened' = Append(opened, nextId)
       /\ calls' = Append(calls, url)
       /\ raised' = Append(raised, o # "ok")
       /\ error_urls' = RecordOutcome(error_urls, url, o)
       /\ idx' = NextIndex(idx)
  /\ pc' = "process"
  /\ UNCHANGED << fileVars, launches, navigations, prompted, auth, fileRead,
                  model_urls, waitVars, quits, errorLogged, opVars >>

\* process_urls returns (line 163); run goes on to the wait (lines 190-193).
ProcessUrlsReturn ==
  /\ pc = "process"
  /\ idx > Len(model_urls)
  /\ pc' = "wait_init"
  /\ UNCHANGED << fileVars, launches, handles, current, nextId, navigations,
                  prompted, auth, fileRead, model_urls, loopVars, waitVars,
                  quits, errorLogged, opVars >>

\* ------------------------------------------- wait_for_manual_processing
\* lines 170-173
WaitBegin ==
  /\ pc = "wait_init"
  /\ initial_tab_count' = Len(handles)
  /\ previous_tab_count' = Len(handles)
  /\ pbar_n' = 0
  /\ pc' = "poll"
  /\ UNCHANGED << fileVars, launches, handles, current, nextId, navigations,
                  prompted, auth, fileRead, model_urls, loopVars, quits,
                  errorLogged, opVars >>

\* a loop that stops while one tab is still open
LoopContinuesAboveOne(n) == n > 1

\* line 174: the loop goes on while tabs are open
LoopContinues(n) == n > 0

\* line 174: the loop condition reads the tab count; at zero the wait
\* returns and run goes on to driver.quit (lines 194-195).
PollLoopCondition ==
  /\ pc = "poll"
  /\ pc' = IF LoopContinues(Len(handles)) THEN "body" ELSE "quit"
  /\ UNCHANGED << fileVars, launches, handles, current, nextId, navigations,
                  prompted, auth, fileRead, model_urls, loopVars, waitVars,
                  quits, errorLogged, opVars >>

\* an update on every change of the count, also an increase
ShouldUpdateNonZero(tabs_closed) == tabs_closed # 0

\* line 177
ShouldUpdate(tabs_closed) == tabs_closed > 0

\* lines 175-180: the loop body reads the tab count again, updates the
\* progress bar, sleeps.
PollBody ==
  /\ pc = "body"
  /\ LET current_tab_count == Len(handles)
         tabs_closed == previous_tab_count - current_tab_count
     IN
       IF ShouldUpdate(tabs_closed)
       THEN /\ pbar_n' = pbar_n + tabs_closed
            /\ previous_tab_count' = current_tab_count
       ELSE UNCHANGED << pbar_n, previous_tab_count >>
  /\ pc' = "poll"
  /\ UNCHANGED << fileVars, launches, handles, current, nextId, navigations,
                  prompted, auth, fileRead, model_urls, loopVars,
                  initial_tab_count, quits, errorLogged, opVars >>

\* run returning without driver.quit()
RunQuitSkipped ==
  /\ pc = "quit"
  /\ pc' = "done"
  /\ UNCHANGED << fileVars, launches, handles, current, nextId, navigations,
                  prompted, auth, fileRead, model_urls, loopVars, waitVars,
                  quits, errorLogged, opVars >>

\* run, line 195: driver.quit() ends the browser and all its tabs.
RunQuit ==
  /\ pc = "quit"
  /\ quits' = quits + 1
  /\ handles' = <<>>
  /\ current' = 0
  /\ pc' = "done"
  /\ UNCHANGED << fileVars, launches, nextId, navigations, prompted, auth,
                  fileRead, model_urls, loopVars, waitVars, errorLogged,
                  opVars >>

\* ------------------------------------------------------------- operator
\* The tabs whose closing the program can tell apart.  Before the wait the
\* program touches only the tab the driver is switched to (closing another
\* one shows only in the tab count, which is first read by the wait).
\* wait_for_manual_processing reads only the number of handles, so there
\* the newest tab stands for any.
Closable == IF pc \in WaitPcs \cup { "quit" }
            THEN { Len(handles) } \ { 0 }
            ELSE { i \in 1..Len(handles) : handles[i].id = current }

\* The operator closes a tab of the running browser.
OperatorClosesTab ==
  /\ pc \in BrowserPcs
  /\ \E i \in Closable : handles' = RemoveAt(handles, i)
  /\ interfered' = TRUE
  /\ UNCHANGED << pc, fileVars, launches, current, nextId, navigations,
                  prompted, auth, fileRead, model_urls, loopVars, waitVars,
                  quits, errorLogged, opOpened >>

\* The operator opens a tab from a window of the running browser.  An extra
\* tab shows only in the tab count, which is first read by the wait.
OperatorOpensTab ==
  /\ pc \in WaitPcs
  /\ Len(handles) > 0
  /\ opOpened < MaxOperatorTabs
  /\ handles' = Append(handles, Tab(nextId, "blank", <<>>, <<>>))
  /\ nextId' = nextId + 1
  /\ opOpened' = opOpened + 1
  /\ interfered' = TRUE
  /\ UNCHANGED << pc, fileVars, launches, current, navigations, prompted,
                  auth, fileRead, model_urls, loopVars, waitVars, quits,
                  errorLogged >>

\* ------------------------------------------------------------ behaviours
Program ==
  \/ InitMissingFile
  \/ InitializeDriver
  \/ InitializeDriverRaises
  \/ RunNavigate
  \/ IsLoggedInPrompt
  \/ IsLoggedInCheck
  \/ ReadModelUrls
  \/ ProcessModelUrl
  \/ ProcessUrlsReturn
  \/ WaitBegin
  \/ PollLoopCondition
  \/ PollBody
  \/ RunQuit

Operator ==
  \/ OperatorClosesTab
  \/ OperatorOpensTab

Next == Program \/ Operator

Spec == Init /\ [][Next]_vars

\* The wait polls once a second and run then quits: these steps are taken
\* whenever they can be.  Nothing is assumed of the operator.
WaitSteps == WaitBegin \/ PollLoopCondition \/ PollBody \/ RunQuit

LiveSpec == Spec /\ WF_vars(WaitSteps)

\* ================================================================ claims
\* process_urls has returned (run is at or past line 190)
LoopDone == auth = "true" /\ pc \in { "wait_init", "poll", "body", "quit", "done" }

NoneRaised == \A i \in 1..Len(raised) : ~raised[i]

\* the entries of `urls` whose call raised, in order
RECURSIVE RaisedOnes(_, _)
RaisedOnes(urls, flags) ==
  IF urls = <<>> THEN <<>>
  ELSE IF Head(flags) THEN << Head(urls) >> \o RaisedOnes(Tail(urls), Tail(flags))
       ELSE RaisedOnes(Tail(urls), Tail(flags))

Occurrences(s, x) == Cardinality({ i \in 1..Len(s) : s[i] = x })

\* C1: when process_urls has gone through the list with no call raising and
\* the operator has touched no tab, the browser holds the initial tab and,
\* after it, one tab per input URL, in input order: the i-th of them is the
\* tab the i-th call opened, shows the import page, holds exactly the i-th
\* URL in its field and was typed into once; the initial tab got no URL.
C1_OneTabPerUrl ==
  (pc = "wait_init" /\ auth = "true" /\ ~interfered /\ NoneRaised) =>
    /\ Len(handles) = 1 + Len(model_urls)
    /\ handles[1].typed = <<>>
    /\ \A i \in 1..Len(model_urls) :
         /\ handles[i + 1].id = opened[i]
         /\ handles[i + 1].page = "import"
         /\ handles[i + 1].field = model_urls[i]
         /\ handles[i + 1].typed = << model_urls[i] >>
    /\ \A i, j \in 1..Len(opened) : opened[i] = opened[j] => i = j

C1_Witness ==
  /\ pc = "wait_init" /\ auth = "true" /\ ~interfered /\ NoneRaised
  /\ Len(model_urls) = 2
  /\ model_urls[1] # model_urls[2]
  /\ Len(handles) = 3

\* C2: when the input file does not exist the run logs the configuration
\* error and ends at once: the browser is never launched, and there is no
\* navigation, no login prompt, no reading or processing of URLs, no wait
\* for the tabs and no quit.
C2_MissingFileStopsEarly ==
  ~fileExists =>
    /\ pc \in { "init", "exited" }
    /\ (pc = "exited" => errorLogged)
    /\ launches = 0
    /\ handles = <<>>
    /\ navigations = 0
    /\ ~prompted
    /\ auth = "none"
    /\ ~fileRead
    /\ calls = <<>>
    /\ quits = 0

C2_Witness == ~fileExists /\ pc = "exited" /\ errorLogged /\ launches = 0

\* C3: when is_logged_in returned false the URL file is never read,
\* process_model_url is never called, the program opens no tab, the wait
\* is never entered, and the only thing left to the run is driver.quit,
\* which has been called once the run is over.
C3_AuthFailureSkipsPipeline ==
  auth = "false" =>
    /\ ~fileRead
    /\ model_urls = <<>>
    /\ calls = <<>>
    /\ opened = <<>>
    /\ Len(handles) <= 1
    /\ pc \in { "quit", "done" }
    /\ (pc = "quit" => quits = 0)
    /\ (pc = "done" => quits = 1)

C3_Witness == auth = "false" /\ pc = "done" /\ quits = 1 /\ ~fileRead

\* C4: the wait ends exactly when a poll finds no tab open.  The wait is
\* left only by the loop condition reading a tab count of zero, a loop
\* condition that reads zero leaves it, the browser is not quit while the
\* wait is on, and once every tab is closed the wait returns and the run
\* quits the browser.
C4_WaitEndsAtZeroTabs ==
  /\ [][ (pc \in WaitPcs /\ pc' \notin WaitPcs) =>
           (pc = "poll" /\ Len(handles) = 0 /\ pc' = "quit") ]_vars
  /\ [][ (pc = "poll" /\ pc' # "poll") =>
           (pc' = "quit" <=> Len(handles) = 0) ]_vars
  /\ [](pc \in WaitPcs => quits = 0)
  /\ ((pc \in WaitPcs /\ Len(handles) = 0) ~> (pc = "done" /\ quits = 1))

C4_Witness ==
  /\ pc = "done" /\ auth = "true"
  /\ initial_tab_count >= 2
  /\ pbar_n >= 1
  /\ opOpened >= 1

\* C5 as claimed: every run that ends has terminated the browser, once.
C5_AlwaysTerminated ==
  pc \in { "exited", "crashed", "done" } => quits = 1

\* C5 as amended: the browser is quit at most once; a run whose run()
\* returns has launched the browser once and quit it once; a run that ends
\* for want of the input file never launched a browser and quits none; a
\* run that an uncaught exception ends does not quit the browser.
C5_TerminatedWhenRunReturns ==
  /\ quits <= 1
  /\ launches <= 1
  /\ (pc = "done" => (quits = 1 /\ launches = 1 /\ handles = <<>>))
  /\ (pc # "done" => quits = 0)
  /\ (pc = "exited" => launches = 0)
  /\ (pc = "crashed" => launches = 1)

C5_Witness == pc = "done" /\ auth = "true" /\ quits = 1 /\ Len(calls) = 2

\* C6: process_urls calls process_model_url once per entry of the list, in
\* input order: at every moment the URLs passed so far are the first
\* entries of the list, one call has ended (normally or by raising) per
\* URL passed, and when the loop is over they are the whole list.
C6_OncePerEntryInOrder ==
  /\ Len(calls) <= Len(model_urls)
  /\ calls = SubSeq(model_urls, 1, Len(calls))
  /\ Len(raised) = Len(calls)
  /\ (pc = "process" => idx = Len(calls) + 1)
  /\ (LoopDone => calls = model_urls)

C6_Witness ==
  /\ LoopDone
  /\ Len(model_urls) = 2
  /\ model_urls[1] # model_urls[2]
  /\ calls = model_urls
  /\ raised = << TRUE, FALSE >>

\* C7 as claimed: when the loop is over every entry was processed, each
\* URL whose processing raised is in the failed list exactly once, and the
\* failed list holds no URL whose processing did not raise.
C7_FailedUrlOnce ==
  LoopDone =>
    /\ Len(calls) = Len(model_urls)
    /\ \A i \in 1..Len(calls) :
         raised[i] => Occurrences(error_urls, calls[i]) = 1
    /\ \A i \in 1..Len(calls) :
         ~raised[i] => Occurrences(error_urls, calls[i]) = 0

\* C7 as amended: a call that raises never ends the run and never stops
\* the loop, and the failed list is, in input order, the entries whose call
\* raised, one entry per raising call (so a URL that stands on several
\* lines is listed once for each of its calls that raised).
C7_FailedListIsRaisedEntries ==
  /\ error_urls = RaisedOnes(calls, raised)
  /\ (pc = "crashed" => calls = <<>>)
  /\ (LoopDone => Len(calls) = Len(model_urls))

C7_Witness ==
  /\ LoopDone
  /\ Len(model_urls) = 2
  /\ raised = << TRUE, FALSE >>
  /\ error_urls = << model_urls[1] >>
  /\ Len(opened) = 2

C9_ClosedCountGrowsOnDrop ==
  [][ /\ pbar_n' >= pbar_n
      /\ (pc = "body" /\ pc' = "poll" /\ Len(handles) >= previous_tab_count)
           => pbar_n' = pbar_n
      /\ (pbar_n' > pbar_n) =>
           /\ pc = "body" /\ pc' = "poll"
           /\ Len(handles) < previous_tab_count
           /\ pbar_n' - pbar_n = previous_tab_count - Len(handles)
    ]_vars

C9_Witness ==
  /\ pc = "body"
  /\ pbar_n >= 1
  /\ opOpened >= 1
  /\ Len(handles) > previous_tab_count

\* C10: the progress bar shows the tabs closed so far: after every pass of
\* the loop body its count is the tab count at the start of the wait minus
\* the count just read, and when the wait has returned its count is the
\* tab count at the start of the wait.
C10_ProgressShowsAllClosed ==
  /\ [][ (pc = "body" /\ pc' = "poll") =>
           pbar_n' = initial_tab_count - Len(handles) ]_vars
  /\ []((auth = "true" /\ pc \in { "quit", "done" }) =>
           pbar_n = initial_tab_count)

====
